---- MODULE Spec2Model ----
(***************************************************************************)
(* Model of src/endpoints/crosschain/ethereum/text_records.rs:             *)
(* get_verifier_data (call encoder, find_social_id, handler dispatch) and  *)
(* get_unbounded_user_data.  One behaviour is one request: the caller's    *)
(* inputs are fixed by Init, the chain RPC node and the social APIs are    *)
(* the environment and answer nondeterministically.                        *)
(*                                                                         *)
(* Field elements are naturals.  The short-string packing of starknet-rs   *)
(* (big-endian bytes, 32 bytes per felt, at most 31 bytes per string,      *)
(* ASCII below 128 of 256) is kept in shape and scaled down: FeltBytes     *)
(* bytes per felt, ByteBase values per byte, ASCII below ByteBase \div 2.  *)
(***************************************************************************)
EXTENDS Integers, Sequences, FiniteSets, TLC

VARIABLES
    op,                 \* which entry point this request runs
    id,                 \* id: FieldElement
    field,              \* record_config.field / field: the name, as bytes
    verifier_contracts, \* record_config.verifier_contracts
    handler,            \* record_config.handler
    pc,                 \* position of the async fn
    rpcLog,             \* every FunctionCall handed to provider.call, in order
    call_result,        \* what provider.call returned
    social_id,          \* let social_id = find_social_id(&result)
    handlerLog,         \* every id execute_handler was invoked with, in order
    httpLog,            \* every HTTP request sent, in order
    response,           \* what the social API answered
    decoded,            \* the elements handed to parse_cairo_short_string
    outcome             \* what the entry point returned (or that it panicked)

vars == <<op, id, field, verifier_contracts, handler, pc, rpcLog, call_result,
          social_id, handlerLog, httpLog, response, decoded, outcome>>

-----------------------------------------------------------------------------
(* Bounds of the model *)

MaxVerifiers == 2   \* longest verifier list
MaxBuf == 6         \* longest result buffer of the aggregated call
MaxChunks == 3      \* most chunks after the presence flag
FeltBytes == 3      \* bytes per field element (32 in starknet-rs)
ByteBase == 6       \* values per byte (256 in starknet-rs)

-----------------------------------------------------------------------------
(* Configuration: contract addresses and entry point selectors *)

contracts_starknetid == 1001
contracts_argent_multicall == 1002
selector_get_verifier_data == 2001
selector_aggregate == 2002
selector_get_unbounded_user_data == 2003
\* The verifier addresses a deployment lists for a field, in its order.
ConfiguredVerifiers == <<3002, 3001, 3004, 3003>>

StatusOK == 200
HandlerType == {"Static", "GetDiscordName", "GetGithubName", "GetTwitterName"}

-----------------------------------------------------------------------------
(* Results: Option<String>, or the panic that unwinds out of the function *)

Pending == [kind |-> "pending", val |-> ""]
None == [kind |-> "none", val |-> ""]
Some(s) == [kind |-> "some", val |-> s]
Panic == [kind |-> "panic", val |-> ""]

Ok(v) == [ok |-> TRUE, val |-> v]
Err == [ok |-> FALSE, val |-> ""]

-----------------------------------------------------------------------------
(* Field elements and the short-string packing *)

RECURSIVE Pow(_, _)
Pow(b, n) == IF n = 0 THEN 1 ELSE b * Pow(b, n - 1)

FeltLimit == Pow(ByteBase, FeltBytes)
ShortStringMax == FeltBytes - 1
AsciiLimit == ByteBase \div 2

\* The character of a byte (byte as char).
Chars == <<"a", "b", "c", "d", "e", "f", "g", "h", "i", "j">>
CharOf(b) == Chars[b]

\* FieldElement::from_byte_slice_be: the big-endian value of the bytes.
RECURSIVE FromBytesBE(_)
FromBytesBE(bs) ==
    IF bs = <<>> THEN 0
    ELSE FromBytesBE(SubSeq(bs, 1, Len(bs) - 1)) * ByteBase + bs[Len(bs)]

\* FieldElement::to_bytes_be: FeltBytes bytes, most significant first.
ToBytesBE(felt) ==
    [i \in 1 .. FeltBytes |-> (felt \div Pow(ByteBase, FeltBytes - i)) % ByteBase]

\* cairo_short_string_to_felt: fails on a non-ASCII byte or on more than
\* ShortStringMax bytes, else packs the bytes big-endian.
cairo_short_string_to_felt(str) ==
    IF \E i \in 1 .. Len(str) : str[i] >= AsciiLimit THEN Err
    ELSE IF Len(str) > ShortStringMax THEN Err
    ELSE Ok(FromBytesBE(str))

\* The loop of parse_cairo_short_string over the bytes: leading zero bytes
\* are skipped, a zero byte after a character is an error.
RECURSIVE ParseBytes(_, _)
ParseBytes(bs, buffer) ==
    IF bs = <<>> THEN Ok(buffer)
    ELSE IF bs[1] = 0
         THEN IF buffer # "" THEN Err ELSE ParseBytes(Tail(bs), buffer)
         ELSE ParseBytes(Tail(bs), buffer \o CharOf(bs[1]))

\* parse_cairo_short_string: zero is the empty string, a felt whose first
\* byte is set is out of range.
parse_cairo_short_string(felt) ==
    IF felt = 0 THEN Ok("")
    ELSE IF ToBytesBE(felt)[1] > 0 THEN Err
    ELSE ParseBytes(ToBytesBE(felt), "")

Digits == <<"0", "1", "2", "3", "4", "5", "6", "7", "8", "9">>

\* A formatter that emits the digits least significant first.
RECURSIVE to_string_Reversed(_)
to_string_Reversed(n) ==
    IF n < 10 THEN Digits[n + 1]
    ELSE Digits[(n % 10) + 1] \o to_string_Reversed(n \div 10)

\* FieldElement::to_string: the decimal representation.
RECURSIVE to_string(_)
to_string(n) ==
    IF n < 10 THEN Digits[n + 1]
    ELSE to_string(n \div 10) \o Digits[(n % 10) + 1]

-----------------------------------------------------------------------------
(* find_social_id *)

\* for chunk in skipped_result.chunks(2): the second element of the first
\* two-element chunk whose second element is non-zero, else zero.  A last
\* chunk of one element does not match [_, second].
\* A scan that tests the first element of each chunk instead of the second.
RECURSIVE ScanChunks_FirstOfPair(_)
ScanChunks_FirstOfPair(skipped_result) ==
    IF Len(skipped_result) < 2 THEN 0
    ELSE IF skipped_result[1] # 0 THEN skipped_result[1]
    ELSE ScanChunks_FirstOfPair(SubSeq(skipped_result, 3, Len(skipped_result)))

RECURSIVE ScanChunks(_)
ScanChunks(skipped_result) ==
    IF Len(skipped_result) < 2 THEN 0
    ELSE IF skipped_result[2] # 0 THEN skipped_result[2]
    ELSE ScanChunks(SubSeq(skipped_result, 3, Len(skipped_result)))

\* A decoder that skips one header element instead of two.
find_social_id_SkipOne(result) ==
    IF Len(result) < 1 THEN Err
    ELSE Ok(ScanChunks(SubSeq(result, 2, Len(result))))

\* &result[2..] panics when the buffer has fewer than two elements.
find_social_id(result) ==
    IF Len(result) < 2 THEN Err
    ELSE Ok(ScanChunks(SubSeq(result, 3, Len(result))))

-----------------------------------------------------------------------------
(* JSON bodies (serde_json) *)

JInvalid == [t |-> "invalid"]                  \* not JSON
JUnreadable == [t |-> "unreadable"]            \* the body could not be read
JNum(n) == [t |-> "num", n |-> n]
JStr(s) == [t |-> "str", s |-> s]
JObj(f) == [t |-> "obj", f |-> f]

IsJson(v) == v.t \in {"num", "str", "obj"}

\* Value::get(key): the member of an object, None for anything else.
Get(opt, key) ==
    IF opt.ok /\ opt.val.t = "obj" /\ key \in DOMAIN opt.val.f
    THEN Ok(opt.val.f[key])
    ELSE Err

\* Value::as_str
AsStr(opt) == IF opt.ok /\ opt.val.t = "str" THEN Ok(opt.val.s) ELSE Err

\* Deserializing a struct with one String member `key` (DiscordUser,
\* GithubUser): the body must be an object holding a string under key.
StructField(body, key) ==
    IF IsJson(body) THEN AsStr(Get(Ok(body), key)) ELSE Err

-----------------------------------------------------------------------------
(* The social API handlers.  A response is what reqwest hands back:        *)
(* transport "err" (send failed), or a status and a body.                  *)

HOk(name) == [kind |-> "ok", val |-> name]
HErr == [kind |-> "err", val |-> ""]
HPanic == [kind |-> "panic", val |-> ""]

FromOpt(opt) == IF opt.ok THEN HOk(opt.val) ELSE HErr

\* get_discord_name: send()?, then json::<DiscordUser>(); the status is
\* not looked at.
get_discord_name(resp) ==
    IF resp.transport = "err" THEN HErr
    ELSE FromOpt(StructField(resp.body, "username"))

\* get_github_name: send, status must be 200, text, from_str::<GithubUser>.
get_github_name(resp) ==
    IF resp.transport = "err" THEN HErr
    ELSE IF resp.status # StatusOK THEN HErr
    ELSE FromOpt(StructField(resp.body, "login"))

\* The path data.user_result.result.legacy.screen_name, as_str.
ScreenName(json) ==
    AsStr(Get(Get(Get(Get(Get(Ok(json), "data"), "user_result"), "result"),
                  "legacy"), "screen_name"))

\* get_twitter_name: send()?, status must be 200, text()?, from_str()?,
\* then Ok(screen_name.map(..).unwrap()): the unwrap panics on a missing
\* screen name.
get_twitter_name(resp) ==
    IF resp.transport = "err" THEN HErr
    ELSE IF resp.status # StatusOK THEN HErr
    ELSE IF ~IsJson(resp.body) THEN HErr
    ELSE IF ScreenName(resp.body).ok THEN HOk(ScreenName(resp.body).val)
    ELSE HPanic

\* The API a handler asks, and the request it sends for a social id.
ApiOf(h) ==
    CASE h = "GetDiscordName" -> "discord"
      [] h = "GetGithubName" -> "github"
      [] h = "GetTwitterName" -> "twitter"

Request(h, social) == [api |-> ApiOf(h), user |-> to_string(social)]

\* execute_handler once the response (if any) is in: the match on self.handler.
execute_handler(h, social, resp) ==
    CASE h = "Static" -> HOk(to_string(social))
      [] h = "GetDiscordName" -> get_discord_name(resp)
      [] h = "GetGithubName" -> get_github_name(resp)
      [] h = "GetTwitterName" -> get_twitter_name(resp)

\* match record_config.execute_handler(..).await: Ok(name) => Some(name),
\* Err(e) => None; a panic unwinds.
FoldHandler(r) ==
    CASE r.kind = "ok" -> Some(r.val)
      [] r.kind = "err" -> None
      [] r.kind = "panic" -> Panic

-----------------------------------------------------------------------------
(* The call encoder of get_verifier_data *)

\* A group with the id and the verifier address in each other's slot.
CallGroup_Swapped(i, f, verifier) ==
    <<contracts_starknetid, selector_get_verifier_data, 4, verifier, f, i, 0>>

\* The seven elements pushed for one verifier.
CallGroup(i, f, verifier) ==
    <<contracts_starknetid, selector_get_verifier_data, 4, i, f, verifier, 0>>

RECURSIVE PushCalls(_, _, _)
PushCalls(i, f, verifiers) ==
    IF verifiers = <<>> THEN <<>>
    ELSE CallGroup(i, f, verifiers[1]) \o PushCalls(i, f, Tail(verifiers))

\* calls: the count, then one group per verifier.
BuildCalls(i, f, verifiers) == <<Len(verifiers)>> \o PushCalls(i, f, verifiers)

\* A zero test that never fires.
IsAbsent_Never(social) == FALSE

\* if social_id == FieldElement::ZERO { return None; }
IsAbsent(social) == social = 0

\* The unwrap of cairo_short_string_to_felt sits inside the loop: it runs
\* (and can panic) only when there is a verifier.
EncodePanics(f, verifiers) ==
    verifiers # <<>> /\ ~cairo_short_string_to_felt(f).ok

\* A join that gives up at the first chunk that does not decode.
RECURSIVE JoinDecoded_StopAtError(_)
JoinDecoded_StopAtError(chunks) ==
    IF chunks = <<>> THEN ""
    ELSE IF ~parse_cairo_short_string(chunks[1]).ok THEN ""
    ELSE parse_cairo_short_string(chunks[1]).val
         \o JoinDecoded_StopAtError(Tail(chunks))

\* filter_map(parse_cairo_short_string(val).ok()).collect().join("")
RECURSIVE JoinDecoded(_)
JoinDecoded(chunks) ==
    IF chunks = <<>> THEN ""
    ELSE (IF parse_cairo_short_string(chunks[1]).ok
          THEN parse_cairo_short_string(chunks[1]).val ELSE "")
         \o JoinDecoded(Tail(chunks))

-----------------------------------------------------------------------------
(* Inputs of a request and answers of the environment *)

Ids == {42, 43}

GoodField == <<1, 2>>
LongField == [i \in 1 .. FeltBytes |-> 1]      \* one byte too many
NonAsciiField == <<AsciiLimit>>
Fields == {GoodField, LongField, NonAsciiField}

\* record_config.verifier_contracts: the first n configured addresses.
VerifierLists ==
    {SubSeq(ConfiguredVerifiers, 1, n) :
        n \in {m \in 0 .. MaxVerifiers : m <= Len(ConfiguredVerifiers)}}

\* Result buffers of the aggregated call: any felts, any length.
BufVals == {0, 2, 12}
Buffers == UNION {[1 .. n -> BufVals] : n \in 0 .. MaxBuf}

\* Result buffers of the direct read: chunks that decode ("", "a", "ab")
\* and chunks that do not (first byte set; a zero byte after a character).
ChunkFelts == {0, FromBytesBE(<<1>>), FromBytesBE(<<1, 2>>),
               FeltLimit - 1, FromBytesBE(<<1, 0>>)}
UBuffers == UNION {[1 .. n -> ChunkFelts] : n \in 0 .. MaxChunks + 1}

Bodies ==
    { JInvalid,
      JUnreadable,
      JObj([message |-> JStr("error")]),
      JObj([username |-> JStr("alice")]),
      JObj([login |-> JStr("bob")]),
      JObj([username |-> JNum(5), login |-> JNum(5)]),
      JObj([data |-> JObj([user_result |-> JObj([result |-> JObj([legacy |->
            JObj([screen_name |-> JStr("carol")])])])])]),
      JObj([data |-> JObj([user_result |-> JObj([result |-> JObj([legacy |->
            JObj([name |-> JStr("carol")])])])])]) }

NoResponse == [transport |-> "none", status |-> 0, body |-> JInvalid]
Responses ==
    {[transport |-> "err", status |-> 0, body |-> JInvalid]}
    \cup [transport : {"ok"}, status : {StatusOK, 500}, body : Bodies]

NoResult == [kind |-> "none", data |-> <<>>]

-----------------------------------------------------------------------------
(* The state machine *)

Init ==
    /\ op \in {"get_verifier_data", "get_unbounded_user_data"}
    /\ id \in Ids
    /\ field \in Fields
    /\ IF op = "get_verifier_data"
       THEN verifier_contracts \in VerifierLists /\ handler \in HandlerType
       ELSE verifier_contracts = <<>> /\ handler = "Static"
    /\ pc = "start"
    /\ rpcLog = <<>>
    /\ call_result = NoResult
    /\ social_id = 0
    /\ handlerLog = <<>>
    /\ httpLog = <<>>
    /\ response = NoResponse
    /\ decoded = <<>>
    /\ outcome = Pending

\* The function returns (or unwinds) with result r.
Return(r) == pc' = "done" /\ outcome' = r

\* get_verifier_data up to the await of provider.call: build the calldata
\* (panicking on a field name that does not encode) and send the call.
GetVerifierDataCall ==
    /\ op = "get_verifier_data" /\ pc = "start"
    /\ IF EncodePanics(field, verifier_contracts)
       THEN /\ Return(Panic)
            /\ UNCHANGED rpcLog
       ELSE /\ rpcLog' = Append(rpcLog,
                   [contract_address |-> contracts_argent_multicall,
                    entry_point_selector |-> selector_aggregate,
                    calldata |-> BuildCalls(id,
                                    cairo_short_string_to_felt(field).val,
                                    verifier_contracts)])
            /\ pc' = "rpc"
            /\ UNCHANGED outcome
    /\ UNCHANGED <<op, id, field, verifier_contracts, handler, call_result,
                   social_id, handlerLog, httpLog, response, decoded>>

\* provider.call failed: Err(err) => None.
GetVerifierDataRpcErr ==
    /\ op = "get_verifier_data" /\ pc = "rpc"
    /\ call_result' = [kind |-> "err", data |-> <<>>]
    /\ Return(None)
    /\ UNCHANGED <<op, id, field, verifier_contracts, handler, rpcLog,
                   social_id, handlerLog, httpLog, response, decoded>>

\* provider.call returned Ok(result): decode, return None on zero, else
\* run the handler up to its HTTP request (Static finishes at once).
GetVerifierDataRpcOk ==
    /\ op = "get_verifier_data" /\ pc = "rpc"
    /\ \E result \in Buffers :
        LET found == find_social_id(result) IN
        /\ call_result' = [kind |-> "ok", data |-> result]
        /\ IF ~found.ok
           THEN /\ Return(Panic)
                /\ UNCHANGED <<social_id, handlerLog, httpLog>>
           ELSE
           /\ social_id' = found.val
           /\ IF IsAbsent(found.val)
              THEN /\ Return(None)
                   /\ UNCHANGED <<handlerLog, httpLog>>
              ELSE /\ handlerLog' = Append(handlerLog, found.val)
                   /\ IF handler = "Static"
                      THEN /\ Return(FoldHandler(
                                  execute_handler(handler, found.val, NoResponse)))
                           /\ UNCHANGED httpLog
                      ELSE /\ httpLog' = Append(httpLog, Request(handler, found.val))
                           /\ pc' = "http"
                           /\ UNCHANGED outcome
    /\ UNCHANGED <<op, id, field, verifier_contracts, handler, rpcLog,
                   response, decoded>>

\* The social API answered (or the request failed): the handler finishes
\* and get_verifier_data folds its result.
HandlerReturn ==
    /\ op = "get_verifier_data" /\ pc = "http"
    /\ \E resp \in Responses :
        /\ response' = resp
        /\ Return(FoldHandler(execute_handler(handler, social_id, resp)))
    /\ UNCHANGED <<op, id, field, verifier_contracts, handler, rpcLog,
                   call_result, social_id, handlerLog, httpLog, decoded>>

\* get_unbounded_user_data up to the await of provider.call.
GetUnboundedUserDataCall ==
    /\ op = "get_unbounded_user_data" /\ pc = "start"
    /\ IF ~cairo_short_string_to_felt(field).ok
       THEN /\ Return(Panic)
            /\ UNCHANGED rpcLog
       ELSE /\ rpcLog' = Append(rpcLog,
                   [contract_address |-> contracts_starknetid,
                    entry_point_selector |-> selector_get_unbounded_user_data,
                    calldata |-> <<id, cairo_short_string_to_felt(field).val, 0>>])
            /\ pc' = "rpc"
            /\ UNCHANGED outcome
    /\ UNCHANGED <<op, id, field, verifier_contracts, handler, call_result,
                   social_id, handlerLog, httpLog, response, decoded>>

\* provider.call failed: Err(e) => None.
GetUnboundedUserDataRpcErr ==
    /\ op = "get_unbounded_user_data" /\ pc = "rpc"
    /\ call_result' = [kind |-> "err", data |-> <<>>]
    /\ Return(None)
    /\ UNCHANGED <<op, id, field, verifier_contracts, handler, rpcLog,
                   social_id, handlerLog, httpLog, response, decoded>>

\* provider.call returned Ok(result): result[0] panics on an empty buffer,
\* a zero flag returns None, else every later element goes through
\* parse_cairo_short_string and the decoded ones are joined.
GetUnboundedUserDataRpcOk ==
    /\ op = "get_unbounded_user_data" /\ pc = "rpc"
    /\ \E result \in UBuffers :
        /\ call_result' = [kind |-> "ok", data |-> result]
        /\ IF result = <<>>
           THEN Return(Panic) /\ UNCHANGED decoded
           ELSE IF result[1] = 0
           THEN Return(None) /\ UNCHANGED decoded
           ELSE /\ decoded' = Tail(result)
                /\ Return(Some(JoinDecoded(Tail(result))))
    /\ UNCHANGED <<op, id, field, verifier_contracts, handler, rpcLog,
                   social_id, handlerLog, httpLog, response>>

Next ==
    \/ GetVerifierDataCall
    \/ GetVerifierDataRpcErr
    \/ GetVerifierDataRpcOk
    \/ HandlerReturn
    \/ GetUnboundedUserDataCall
    \/ GetUnboundedUserDataRpcErr
    \/ GetUnboundedUserDataRpcOk

Spec == Init /\ [][Next]_vars

\* The requests of a deployment whose record verifier is configured with the
\* Twitter handler (and the direct reads beside them).
InitTwitter == Init /\ (op = "get_verifier_data" => handler = "GetTwitterName")
SpecTwitter == InitTwitter /\ [][Next]_vars

-----------------------------------------------------------------------------
(* Vocabulary of the properties *)

InVerifier == op = "get_verifier_data"
InUnbounded == op = "get_unbounded_user_data"
RpcOk == call_result.kind = "ok"
Buf == call_result.data

\* A buffer of a 2-element header followed by whole (status, value) pairs.
HeaderAndPairs(d) == Len(d) >= 2 /\ Len(d) % 2 = 0
NPairs(d) == (Len(d) - 2) \div 2
StatusAt(d, k) == d[2 * k + 1]
ValueAt(d, k) == d[2 * k + 2]
NonZeroPairs(d) == {k \in 1 .. NPairs(d) : ValueAt(d, k) # 0}

ExpectedField(h, body) ==
    CASE h = "GetDiscordName" -> StructField(body, "username").ok
      [] h = "GetGithubName" -> StructField(body, "login").ok
      [] h = "GetTwitterName" -> ScreenName(body).ok
HandlerAnswered == InVerifier /\ pc = "done" /\ response.transport # "none"
HandlerFailure ==
    /\ HandlerAnswered
    /\ \/ response.transport = "err"
       \/ response.status # StatusOK
       \/ ~IsJson(response.body)
       \/ ~ExpectedField(handler, response.body)

\* C2: in get_verifier_data a failed chain call, and every failure of the
\* invoked handler (transport error, non-success status, unparsable body,
\* missing expected field), ends in absence: never a panic, never a name.
\* Refuted under SpecTwitter, where the handler is the Twitter one the claim
\* singles out.
C2_FailuresDegradeToAbsence ==
    (InVerifier /\ pc = "done" /\ (call_result.kind = "err" \/ HandlerFailure))
        => outcome = None

\* C3: whenever the social API answers with a non-success status, whatever
\* the body, get_verifier_data returns absence (Discord, GitHub, Twitter).
C3_NonSuccessStatusIsAbsence ==
    (HandlerAnswered /\ response.transport = "ok" /\ response.status # StatusOK)
        => outcome = None

\* C4: execute_handler is only ever invoked with a non-zero id, and a
\* decoded social id of zero gives absence with no handler invocation and no
\* HTTP request, whatever the handler kind.
C4_ZeroNeverReachesHandler ==
    /\ \A i \in 1 .. Len(handlerLog) : handlerLog[i] # 0
    /\ (InVerifier /\ RpcOk /\ Len(Buf) >= 2 /\ social_id = 0) =>
          outcome = None /\ handlerLog = <<>> /\ httpLog = <<>>

\* The Static handler, a buffer whose only value is zero: absence, nothing
\* invoked.
C4_Witness ==
    /\ InVerifier /\ RpcOk /\ handler = "Static"
    /\ Len(Buf) = 4 /\ StatusAt(Buf, 1) = 2 /\ ValueAt(Buf, 1) = 0
    /\ outcome = None /\ handlerLog = <<>>

Unencodable(f) == f \in {LongField, NonAsciiField}

\* C5: a field name that cannot be packed makes get_verifier_data (for a
\* verifier list of any length, the empty one included) and
\* get_unbounded_user_data abort before any chain call: once past the
\* start, the request has panicked and no call was issued.
C5_EncodingAbortsBeforeRpc ==
    (pc # "start" /\ Unencodable(field)) => outcome = Panic /\ rpcLog = <<>>

\* A buffer of one leading count field (the number of verifiers) followed
\* by one (status, value) pair per verifier, every value zero.
CountAndZeroPairs(d, n) ==
    /\ Len(d) = 1 + 2 * n
    /\ d[1] = n
    /\ \A k \in 1 .. n : d[2 * k + 1] = 0

C7_CalldataLayout ==
    (InVerifier /\ rpcLog # <<>>) =>
        LET call == rpcLog[1]
            calls == call.calldata
            n == Len(verifier_contracts)
        IN  /\ call.contract_address = contracts_argent_multicall
            /\ call.entry_point_selector = selector_aggregate
            /\ Len(calls) = 1 + 7 * n
            /\ calls[1] = n
            /\ \A i \in 0 .. n - 1 :
                /\ calls[7 * i + 2] = contracts_starknetid
                /\ calls[7 * i + 3] = selector_get_verifier_data
                /\ calls[7 * i + 4] = 4
                /\ calls[7 * i + 5] = id
                /\ calls[7 * i + 6] = FromBytesBE(field)
                /\ calls[7 * i + 7] = verifier_contracts[i + 1]
                /\ calls[7 * i + 8] = 0

\* A call was sent for two verifiers, listed highest address first.
C7_Witness ==
    /\ InVerifier /\ Len(rpcLog) = 1
    /\ Len(verifier_contracts) = 2
    /\ verifier_contracts[1] > verifier_contracts[2]
    /\ Len(rpcLog[1].calldata) = 15

\* What each chunk the model feeds the reader decodes to, read off the
\* packing: 0 is "", the bytes (1) are "a", the bytes (1, 2) are "ab";
\* a set first byte and a zero after a character do not decode.
Decodes(f) == f \in {0, 1, ByteBase + 2}
TextOf(f) == CASE f = 0 -> "" [] f = 1 -> "a" [] f = ByteBase + 2 -> "ab"
RECURSIVE ConcatText(_)
ConcatText(fs) == IF fs = <<>> THEN "" ELSE TextOf(fs[1]) \o ConcatText(Tail(fs))

\* C8: get_unbounded_user_data on a non-empty buffer: a zero flag gives
\* absence with nothing decoded; any other flag gives the concatenation, in
\* order and without separator, of the chunks that decode, the others
\* skipped; a failed call gives absence.
C8_UnboundedReader ==
    (InUnbounded /\ pc = "done") =>
        /\ call_result.kind = "err" => outcome = None
        /\ (RpcOk /\ Buf # <<>>) =>
              IF Buf[1] = 0
              THEN outcome = None /\ decoded = <<>>
              ELSE /\ outcome.kind = "some"
                   /\ outcome.val = ConcatText(SelectSeq(Tail(Buf), Decodes))

\* Flag set, three chunks, the middle one undecodable: first + third.
C8_Witness ==
    /\ InUnbounded /\ RpcOk /\ Len(Buf) = 4
    /\ Buf[1] # 0 /\ Buf[2] = 1 /\ ~Decodes(Buf[3]) /\ Buf[4] = ByteBase + 2
    /\ outcome = Some("aab")

\* C9: a buffer shorter than 2 + 2 elements (length 0, 1, 2 or 3) returned
\* by a successful aggregated call gives absence, never an abort.
C9_ShortBufferIsAbsence ==
    (InVerifier /\ RpcOk /\ Len(Buf) < 4) => outcome = None

\* The decimal strings of the social ids the model's buffers hold.
DecimalOf(n) == CASE n = 2 -> "2" [] n = 12 -> "12"

\* What C10 says of the HTTP side of a run: a lookup only after a
\* successful chain call that decoded to a non-zero id; a non-Static
\* handler, once invoked, has sent exactly one request, whatever came back;
\* the Static handler sends none and returns the id in decimal.
HttpDiscipline ==
    /\ httpLog # <<>> => RpcOk /\ social_id # 0 /\ Len(rpcLog) = 1
    /\ Len(httpLog) <= 1
    /\ (handler # "Static" /\ handlerLog # <<>>) =>
          /\ Len(httpLog) = 1
          /\ httpLog[1].user = DecimalOf(social_id)
    /\ handler = "Static" =>
          /\ httpLog = <<>>
          /\ handlerLog # <<>> => outcome = Some(DecimalOf(social_id))

====
